---- MODULE Spec2Model ----
(***************************************************************************)
(* A model of marketing_attribution_models/MAM.py: the MAM object (journey *)
(* collection, per-journey table, channel aggregate table, stored results) *)
(* and the attribution models that read the collection and write their     *)
(* results.  Numbers are exact rationals; NaN and the infinities numpy     *)
(* produces on a division by zero are values of the same shape.            *)
(***************************************************************************)
EXTENDS Integers, Sequences, FiniteSets, TLC

\* ------------------------------------------------------------------ bounds
\* Longest journey of the single-journey specification.
MaxLen == 4
\* Largest conversion value of a journey.
MaxValue == 2
\* Largest elapsed time (hours) between a touch and the conversion.
MaxHours == 2
\* Most journeys in a collection of the object-level specification.
MaxJourneys == 2
\* Most model runs on one MAM object.
MaxRuns == 2
\* Longest journey of the Shapley specification.
MaxTouches == 3
\* Most sessions in the frame the constructor segments into journeys.
MaxSessions == 4

\* --------------------------------------------------------------- numbers
\* A number is [n, d]: the rational n/d in lowest terms with d > 0, or, with
\* d = 0, what IEEE arithmetic gives on a division by zero: 0/0 is NaN,
\* 1/0 is +inf, -1/0 is -inf.
Abs(x) == IF x < 0 THEN -x ELSE x

Sign(x) == IF x < 0 THEN -1 ELSE IF x = 0 THEN 0 ELSE 1

RECURSIVE GCD(_, _)
GCD(a, b) == IF b = 0 THEN a ELSE GCD(b, a % b)

Reduce(n, d, g) == [n |-> Sign(d) * Sign(n) * (Abs(n) \div g), d |-> Abs(d) \div g]

Norm(n, d) ==
  IF d = 0 THEN [n |-> Sign(n), d |-> 0] ELSE Reduce(n, d, GCD(Abs(n), Abs(d)))

Int2R(i) == [n |-> i, d |-> 1]

Zero == Int2R(0)

One == Int2R(1)

NaN == [n |-> 0, d |-> 0]

IsFinite(a) == a.d # 0

RAdd(a, b) ==
  IF a.d = 0 /\ b.d = 0 THEN (IF a.n = b.n THEN a ELSE NaN)
  ELSE Norm(a.n * b.d + b.n * a.d, a.d * b.d)

RNeg(a) == [n |-> -a.n, d |-> a.d]

RSub(a, b) == RAdd(a, RNeg(b))

RMul(a, b) == Norm(a.n * b.n, a.d * b.d)

\* numpy's true division: x/0 is an infinity and 0/0 is NaN (with a warning).
RDiv(a, b) == Norm(a.n * b.d, a.d * b.n)

\* a <= b on finite numbers.
RLeq(a, b) == a.n * b.d <= b.n * a.d

RECURSIVE RSum(_)
RSum(s) == IF s = <<>> THEN Zero ELSE RAdd(Head(s), RSum(Tail(s)))

RECURSIVE Pow(_, _)
Pow(b, e) == IF e = 0 THEN 1 ELSE b * Pow(b, e - 1)

\* Python's int(bool).
BoolInt(b) == IF b THEN 1 ELSE 0

\* [x] * n, the list repetition of Python.
Repeat(x, n) == [i \in 1..n |-> x]

\* Python's round(value, ndigits) on an exact number: to the nearest multiple
\* of 10^-ndigits, a tie going to the even one.
RoundHalfEven(q, r2, d) ==
  IF r2 > d \/ (r2 = d /\ q % 2 = 1) THEN q + 1 ELSE q

RoundScaled(sn, d, p) == Norm(RoundHalfEven(sn \div d, 2 * (sn % d), d), p)

round(value, ndigits) ==
  IF ~IsFinite(value) THEN value
  ELSE RoundScaled(value.n * Pow(10, ndigits), value.d, Pow(10, ndigits))

\* round_values_to, the constructor's default.
round_values_to == 4

\* ------------------------------------------------------------ the object
VARIABLES
  channels,                 \* self.channels: one channel sequence per journey
  journey_with_conv,        \* self.journey_with_conv: one flag per journey
  conversion_value,         \* self.conversion_value: one value per journey
  time_till_conv,           \* self.time_till_conv: <<>> for None, else <<hours per journey>>
  DataFrame,                \* self.DataFrame: model column -> per-journey credit vectors
  original_df,              \* self.original_df: model column -> exploded credits
  group_by_channels_models, \* the channel aggregate table, or None
  stored,                   \* the private result attributes, by name
  markov,                   \* what the latest attribution_markov returned
  shapley,                  \* what the latest attribution_shapley returned
  outcome,                  \* how the latest call ended
  runs                      \* calls made so far

journeys == <<channels, journey_with_conv, conversion_value, time_till_conv>>

tables == <<DataFrame, original_df, group_by_channels_models>>

\* self.__first_click ... self.__time_decay, set to None by the constructor.
Attributes ==
  {"__first_click", "__last_click", "__last_click_non", "__linear", "__position_based",
   "__time_decay"}

vars == <<journeys, tables, stored, markov, shapley, outcome, runs>>

\* ----------------------------------------------------- values and tables
Range(s) == {s[i] : i \in DOMAIN s}

RECURSIVE Flatten(_)
Flatten(ss) == IF ss = <<>> THEN <<>> ELSE Head(ss) \o Flatten(Tail(ss))

\* Series.explode().reset_index(drop=True): one row per element.
explode(series) == Flatten(series)

\* np.asarray(weights) * value: elementwise.
Scale(weights, value) == [i \in DOMAIN weights |-> RMul(weights[i], value)]

\* DataFrame({"channels": keys, "value": vals}).groupby("channels")["value"].sum()
groupby_sum(keys, vals) ==
  [c \in Range(keys) |->
     RSum([i \in DOMAIN keys |-> IF keys[i] = c THEN vals[i] ELSE Zero])]

\* A column name: the model's base name, the parameters spelled in it, and
\* the suffix pandas appends when a merge meets the same name on both sides.
ModelName(base, params) == [base |-> base, params |-> params, suffix |-> ""]

Suffixed(name, sfx) == [name EXCEPT !.suffix = sfx]

\* self.group_by_channels_models before any model has written it.
NoTable == [is_df |-> FALSE, columns |-> <<>>, rows |-> [c \in {} |-> <<>>]]

\* A one-column table made of a grouped series: frame.reset_index() with
\* columns ["channels", model_name].
reset_index(frame, model_name) ==
  [is_df |-> TRUE,
   columns |-> <<model_name>>,
   rows |-> [c \in DOMAIN frame |-> <<frame[c]>>]]

\* The column labels of pd.merge(left, right, on="channels"): a label found
\* on both sides gets "_x" on the left and "_y" on the right.
merge_columns(left, right) ==
  [i \in 1..Len(left) |->
     IF left[i] \in Range(right) THEN Suffixed(left[i], "_x") ELSE left[i]]
  \o
  [i \in 1..Len(right) |->
     IF right[i] \in Range(left) THEN Suffixed(right[i], "_y") ELSE right[i]]

HasDuplicates(s) == \E i, j \in DOMAIN s : i < j /\ s[i] = s[j]

\* pandas refuses a merge whose suffixes produce a label twice (MergeError).
merge_fails(left, right) == HasDuplicates(merge_columns(left.columns, right.columns))

\* fillna0 gone wrong: the missing value stays.
fillna0_kept(x) == x

fillna0(x) == IF x = NaN THEN Zero ELSE x

\* row_or_nan gone wrong: the row of the table is not looked up.
row_or_nan_blank(table, c) == Repeat(NaN, Len(table.columns))

\* pd.merge(left, right, how="outer", on=["channels"]).fillna(0): one row per
\* channel of either side, a missing cell is NaN, and every NaN becomes 0.
row_or_nan(table, c) ==
  IF c \in DOMAIN table.rows THEN table.rows[c] ELSE Repeat(NaN, Len(table.columns))

fillna_row(row) == [i \in DOMAIN row |-> fillna0(row[i])]

merge_outer_fillna(left, right) ==
  [is_df |-> TRUE,
   columns |-> merge_columns(left.columns, right.columns),
   rows |-> [c \in DOMAIN left.rows \cup DOMAIN right.rows |->
               fillna_row(row_or_nan(left, c) \o row_or_nan(right, c))]]

\* The tail shared by every model: the grouped results go into
\* self.group_by_channels_models, merged when it is already a data frame.
grouped_results(table, frame, model_name) ==
  IF table.is_df THEN merge_outer_fillna(table, reset_index(frame, model_name))
  ELSE reset_index(frame, model_name)

grouped_results_fails(table, frame, model_name) ==
  table.is_df /\ merge_fails(table, reset_index(frame, model_name))

\* What a model keeps as "frame": the grouped values, or the string
\* "group_by_channels_models = False".
Frame(values) == [is_str |-> FALSE, values |-> values]

FrameStr == [is_str |-> TRUE, values |-> [c \in {} |-> Zero]]

\* A stored result (channels_value, frame), or None.
None == [is_none |-> TRUE, channels_value |-> <<>>, frame |-> FrameStr]

Result(channels_value, frame) ==
  [is_none |-> FALSE, channels_value |-> channels_value, frame |-> frame]

\* The latest call: the method, the column name it builds, its
\* group_by_channels_models and conversion_value_type arguments ("" for a
\* method without one), how it ended ("ok", or the exception it raised) and
\* the message it printed or raised with.
Outcome(op, model_name, gb, conversion_value_type, result, diag) ==
  [op |-> op, model_name |-> model_name, gb |-> gb,
   conversion_value_type |-> conversion_value_type, result |-> result, diag |-> diag]

NoName == ModelName("", <<>>)

\* self.DataFrame[name] = column (a new column, or the old one overwritten).
set_column(df, name, column) ==
  [k \in DOMAIN df \cup {name} |-> IF k = name THEN column ELSE df[k]]

\* weights * conversion_value * int(journey_with_conv), for one journey.
credit(weights, value, conv) ==
  Scale(Scale(weights, Int2R(value)), Int2R(BoolInt(conv)))

\* self.conversion_value * self.journey_with_conv.apply(int), per journey.
converted_value ==
  [j \in DOMAIN channels |->
     RMul(Int2R(conversion_value[j]), Int2R(BoolInt(journey_with_conv[j])))]

\* group_by_results_function's grouping: every touch of every journey with
\* its credit, summed by channel.
group_by_results_function(channels_value) ==
  groupby_sum(Flatten(channels), Flatten(channels_value))

\* ------------------------------------------------- the heuristic weights
\* last_click_weights gone wrong: the 1 is put first.
last_click_weights_swapped(canais) ==
  [i \in 1..Len(canais) |-> IF i = 1 THEN One ELSE Zero]

\* ([0] * (len(channels) - 1)) + [1]
last_click_weights(canais) ==
  [i \in 1..Len(canais) |-> IF i = Len(canais) THEN One ELSE Zero]

\* [1] + ([0] * (len(channels) - 1))
first_click_weights(canais) ==
  [i \in 1..Len(canais) |-> IF i = 1 THEN One ELSE Zero]

Max(S) == CHOOSE x \in S : \A y \in S : y <= x

\* 1 at the index equal to max([i if canal != but_not_this_channel else 0]),
\* indices counted from 0 as in the source.
OneAt(n, idx) == [i \in 1..n |-> IF i - 1 = idx THEN One ELSE Zero]

last_click_non_weights(canais, but_not_this_channel) ==
  OneAt(Len(canais),
        Max({IF canais[i] # but_not_this_channel THEN i - 1 ELSE 0 :
               i \in 1..Len(canais)}))

\* The channel the grouped results credit: canais[-1] when every touch is
\* the excluded channel, else the last touch that is not.
last_click_non_channel(canais, but_not_this_channel) ==
  IF {i \in 1..Len(canais) : canais[i] # but_not_this_channel} = {}
  THEN canais[Len(canais)]
  ELSE canais[Max({i \in 1..Len(canais) : canais[i] # but_not_this_channel})]

\* linear_credit gone wrong: the converted flag is forgotten.
linear_credit_unflagged(canais, value, conv) ==
  Repeat(RDiv(Int2R(value), Int2R(Len(canais))), Len(canais))

\* (conversion_value * int(converted) / channels_count) repeated
\* channels_count times: the linear model computes the credit directly.
linear_credit(canais, value, conv) ==
  Repeat(RDiv(RMul(Int2R(value), Int2R(BoolInt(conv))), Int2R(Len(canais))),
         Len(canais))

\* position_based_weights as the docstring has it: the last touch of three
\* or more gets the last weight of the list.
position_based_weights_last(canais, lst) ==
  IF Len(canais) = 1 THEN <<One>>
  ELSE IF Len(canais) = 2
       THEN <<RAdd(lst[1], RDiv(lst[2], Int2R(2))),
              RAdd(lst[3], RDiv(lst[2], Int2R(2)))>>
       ELSE <<lst[1]>>
            \o Repeat(RDiv(lst[2], Int2R(Len(canais) - 2)), Len(canais) - 2)
            \o <<lst[3]>>

\* list_positions_first_middle_last is <<first, middle, last>>.
position_based_weights(canais, lst) ==
  IF Len(canais) = 1 THEN <<One>>
  ELSE IF Len(canais) = 2
       THEN <<RAdd(lst[1], RDiv(lst[2], Int2R(2))),
              RAdd(lst[3], RDiv(lst[2], Int2R(2)))>>
       ELSE <<lst[1]>>
            \o Repeat(RDiv(lst[2], Int2R(Len(canais) - 2)), Len(canais) - 2)
            \o <<lst[1]>>

\* np.exp(math.log(decay_over_time) * k) for a whole number k.
decay_power(decay_over_time, k) ==
  Norm(Pow(decay_over_time.n, k), Pow(decay_over_time.d, k))

\* decay_bucket gone wrong: the frequency is ignored.
decay_bucket_unscaled(time, frequency) == time

\* np.floor(time / frequency) on whole hours.
decay_bucket(time, frequency) == time \div frequency

\* exp(log(d) * floor(t / F)) / sum(exp(log(d) * floor(t / F)))
DivideAll(v, total) == [i \in DOMAIN v |-> RDiv(v[i], total)]

\* v / sum(v)
DivideBySum(v) == DivideAll(v, RSum(v))

time_decay_weights(times, decay_over_time, frequency) ==
  DivideBySum([i \in DOMAIN times |->
                 decay_power(decay_over_time, decay_bucket(times[i], frequency))])

\* ------------------------------------------------------------ the models
\* The end of every heuristic model: the grouped results are merged into the
\* aggregate table when group_by_channels_models is set, and the pair
\* (channels_value, frame) is what the method stores.  has_else tells whether
\* the method binds frame when group_by_channels_models is False; without it
\* the final assignment reads an unbound local.
Effect(table, model_name, channels_value, frame_values, gb, has_else) ==
  IF gb
  THEN IF grouped_results_fails(table, frame_values, model_name)
       THEN [result |-> "MergeError", table |-> table, store |-> None]
       ELSE [result |-> "ok",
             table |-> grouped_results(table, frame_values, model_name),
             store |-> Result(channels_value, Frame(frame_values))]
  ELSE IF has_else
       THEN [result |-> "ok", table |-> table, store |-> Result(channels_value, FrameStr)]
       ELSE [result |-> "UnboundLocalError", table |-> table, store |-> None]

\* What a heuristic model writes, in the order of the source: the model's
\* column of self.DataFrame and of self.original_df, the aggregate table,
\* and the private attribute attr, which an exception leaves as it was.
write_results(op, attr, model_name, df_column, exploded, gb, e) ==
  /\ runs < MaxRuns
  /\ runs' = runs + 1
  /\ DataFrame' = set_column(DataFrame, model_name, df_column)
  /\ original_df' = set_column(original_df, model_name, exploded)
  /\ group_by_channels_models' = e.table
  /\ stored' = [stored EXCEPT ![attr] = IF e.result = "ok" THEN e.store ELSE @]
  /\ outcome' = Outcome(op, model_name, gb, "", e.result, "")
  /\ UNCHANGED <<journeys, markov, shapley>>

heuristic_model(op, attr, model_name, channels_value, df_column, frame_values, gb, has_else) ==
  write_results(op, attr, model_name, df_column, explode(channels_value), gb,
                Effect(group_by_channels_models, model_name, channels_value,
                       frame_values, gb, has_else))

\* A model whose column of self.DataFrame holds the credits as computed.
plain_model(op, attr, model_name, channels_value, frame_values, gb, has_else) ==
  heuristic_model(op, attr, model_name, channels_value, channels_value, frame_values,
                  gb, has_else)

\* A model that groups with group_by_results_function.
grouping_model(op, attr, model_name, channels_value, df_column, gb) ==
  heuristic_model(op, attr, model_name, channels_value, df_column,
                  group_by_results_function(channels_value), gb, TRUE)

last_click_values ==
  [j \in DOMAIN channels |->
     credit(last_click_weights(channels[j]), conversion_value[j], journey_with_conv[j])]

attribution_last_click(gb) ==
  plain_model("attribution_last_click", "__last_click",
              ModelName("attribution_last_click_heuristic", <<>>),
              last_click_values,
              groupby_sum([j \in DOMAIN channels |-> channels[j][Len(channels[j])]],
                          converted_value),
              gb, TRUE)

last_click_non_values(but_not_this_channel) ==
  [j \in DOMAIN channels |->
     credit(last_click_non_weights(channels[j], but_not_this_channel),
            conversion_value[j], journey_with_conv[j])]

attribution_last_click_non(but_not_this_channel, gb) ==
  plain_model("attribution_last_click_non", "__last_click_non",
              ModelName("attribution_last_click_non", <<but_not_this_channel>>),
              last_click_non_values(but_not_this_channel),
              groupby_sum([j \in DOMAIN channels |->
                             last_click_non_channel(channels[j], but_not_this_channel)],
                          converted_value),
              gb, FALSE)

first_click_values ==
  [j \in DOMAIN channels |->
     credit(first_click_weights(channels[j]), conversion_value[j], journey_with_conv[j])]

attribution_first_click(gb) ==
  plain_model("attribution_first_click", "__first_click",
              ModelName("attribution_first_click_heuristic", <<>>),
              first_click_values,
              groupby_sum([j \in DOMAIN channels |-> channels[j][1]], converted_value),
              gb, FALSE)

linear_values ==
  [j \in DOMAIN channels |->
     linear_credit(channels[j], conversion_value[j], journey_with_conv[j])]

\* str(round(value, self.round_values_to)) for every credit of the column.
rounded_column(channels_value) ==
  [j \in DOMAIN channels_value |->
     [i \in DOMAIN channels_value[j] |-> round(channels_value[j][i], round_values_to)]]

linear_model(channels_value, gb) ==
  grouping_model("attribution_linear", "__linear",
                 ModelName("attribution_linear_heuristic", <<>>),
                 channels_value, rounded_column(channels_value), gb)

attribution_linear(gb) == linear_model(linear_values, gb)

position_based_values(list_positions_first_middle_last) ==
  [j \in DOMAIN channels |->
     credit(position_based_weights(channels[j], list_positions_first_middle_last),
            conversion_value[j], journey_with_conv[j])]

position_based_model(model_name, channels_value, gb) ==
  grouping_model("attribution_position_based", "__position_based", model_name,
                 channels_value, channels_value, gb)

attribution_position_based(list_positions_first_middle_last, gb) ==
  position_based_model(ModelName("attribution_position_based",
                                 list_positions_first_middle_last),
                       position_based_values(list_positions_first_middle_last), gb)

time_decay_values(decay_over_time, frequency) ==
  [j \in DOMAIN channels |->
     credit(time_decay_weights(time_till_conv[1][j], decay_over_time, frequency),
            conversion_value[j], journey_with_conv[j])]

time_decay_model(model_name, channels_value, gb) ==
  grouping_model("attribution_time_decay", "__time_decay", model_name,
                 channels_value, channels_value, gb)

\* With self.time_till_conv None the method prints its message and falls
\* through to the final assignment, whose operands were never bound.
attribution_time_decay(decay_over_time, frequency, gb) ==
  IF time_till_conv = <<>>
  THEN /\ runs < MaxRuns
       /\ runs' = runs + 1
       /\ outcome' = Outcome("attribution_time_decay",
                             ModelName("attribution_time_decay",
                                       <<decay_over_time, frequency>>),
                             gb, "", "UnboundLocalError",
                             "time_till_conv is None, attribution_time_decay model will not work")
       /\ UNCHANGED <<journeys, tables, stored, markov, shapley>>
  ELSE time_decay_model(ModelName("attribution_time_decay",
                                  <<decay_over_time, frequency>>),
                        time_decay_values(decay_over_time, frequency), gb)

\* ------------------------------------------------------- the Markov model
\* allowed_conversion_value_types gone wrong: one more value is let through.
allowed_conversion_value_types_any ==
  {"binary", "integer", "frequency", "monetary", "percentage"}

allowed_conversion_value_types == {"binary", "integer", "frequency", "monetary"}

\* Every channel label of the model, in the order sorted() gives strings.
AllLabels == <<"A", "AB", "B", "Direct">>

sorted(S) == SelectSeq(AllLabels, LAMBDA c : c \in S)

IndexOf(seq, x) == CHOOSE i \in DOMAIN seq : seq[i] = x

RECURSIVE SumInts(_)
SumInts(s) == IF s = <<>> THEN 0 ELSE Head(s) + SumInts(Tail(s))

\* ["(inicio)"] + channels + ["(conversion)" if converted else "(null)"]
markov_path(j) ==
  <<"(inicio)">> \o channels[j]
  \o <<IF journey_with_conv[j] THEN "(conversion)" ELSE "(null)">>

\* The weight every transition of a journey counts for.  (The values of the
\* model are integers, so the float branch of "integer" is not taken.)
freq_values(conversion_value_type) ==
  [j \in DOMAIN channels |->
     IF conversion_value_type = "binary" THEN 1
     ELSE IF conversion_value_type = "frequency" THEN conversion_value[j]
     ELSE IF conversion_value[j] > 1 THEN conversion_value[j] ELSE 1]

\* How often journey j goes from orig straight to dest.
steps(path, orig, dest) ==
  Cardinality({i \in 1..(Len(path) - 1) : path[i] = orig /\ path[i + 1] = dest})

\* temp.groupby(["orig", "dest"]).sum(): the summed count of a transition.
transition_count(orig, dest, freq) ==
  SumInts([j \in DOMAIN channels |-> freq[j] * steps(markov_path(j), orig, dest)])

\* The (orig, dest) rows of temp, without the self-transitions unless
\* transition_to_same_state is set.
transitions(transition_to_same_state) ==
  {<<markov_path(j)[i], markov_path(j)[i + 1]>> :
     <<j, i>> \in {ji \in (DOMAIN channels) \X (1..(MaxLen + 1)) :
                    ji[2] < Len(markov_path(ji[1]))}}
  \ (IF transition_to_same_state THEN {} ELSE {<<c, c>> : c \in Range(AllLabels)})

\* ["(inicio)"] + sorted(channels) + ["(null)", "(conversion)"]
channels_names(rows) ==
  <<"(inicio)">>
  \o sorted(({r[1] : r \in rows} \ {"(inicio)"})
            \cup ({r[2] : r \in rows} \ {"(conversion)", "(null)"}))
  \o <<"(null)", "(conversion)">>

\* A numpy array: its entries are values held in the array, computed once
\* when it is built.
ndarray(a) == a \o <<>>

ndarray2(m) == ndarray([a \in DOMAIN m |-> ndarray(m[a])])

\* path_to_matrix sizes the matrix by the largest index met: without any
\* transition into "(conversion)", the last name has no row or column.
channel_max(rows, names) ==
  IF "(conversion)" \in {r[2] : r \in rows} THEN Len(names) ELSE Len(names) - 1

\* path_to_matrix: the counts, then 1 on the last two diagonal entries.
path_to_matrix(rows, names, size, freq) ==
  ndarray2([a \in 1..size |->
     [b \in 1..size |->
        IF a = b /\ a >= size - 1 THEN One
        ELSE IF <<names[a], names[b]>> \in rows
             THEN Int2R(transition_count(names[a], names[b], freq))
             ELSE Zero]])

divide_row(row, mean) ==
  ndarray([b \in DOMAIN row |-> RDiv(row[b], IF mean = Zero THEN One ELSE mean)])

\* normalize_rows gone wrong: the rows are left as counted.
normalize_rows_raw(matrix) == matrix

\* matrix / np.where(mean == 0, 1, mean), mean being the row sums.
normalize_rows(matrix) ==
  ndarray([a \in DOMAIN matrix |-> divide_row(matrix[a], RSum(matrix[a]))])

\* One transient state u taken out of the chain: every other state goes
\* where it went through u.
eliminate(P, u, stay) ==
  ndarray2([a \in DOMAIN P |->
     [b \in DOMAIN P |->
        IF b = u THEN Zero
        ELSE IF P[a][u] = Zero /\ stay # Zero THEN P[a][b]
        ELSE RAdd(P[a][b], RDiv(RMul(P[a][u], P[u][b]), stay))]])

RECURSIVE absorption(_, _)
absorption(P, u) ==
  IF u > Len(P) - 2 THEN RDiv(P[1][Len(P)], RSub(One, P[1][1]))
  ELSE absorption(eliminate(P, u, RSub(One, P[u][u])), u + 1)

\* power_to_infinity(matrix)[0, -1].  Q * trunc(L + 0.001) * inv(Q) keeps the
\* eigenvalues 1 of the matrix and drops the others, which is the limit of
\* the powers of the matrix; the source computes it in floating point, and
\* here it is the exact limit: the chance that the chain started in the
\* first state ends in the last one.
power_to_infinity_first_last(matrix) == absorption(matrix, 2)

calc_total_conversion(matrix) == power_to_infinity_first_last(normalize_rows(matrix))

\* without_column gone wrong: the column is left in the matrix.
without_column_kept(matrix, column) == matrix

\* temp[:, -2] = temp[:, -2] + temp[:, column]; temp[:, column] = 0
without_column(matrix, column) ==
  ndarray2([a \in DOMAIN matrix |->
     [b \in DOMAIN matrix |->
        IF b = column THEN Zero
        ELSE IF b = Len(matrix) - 1 THEN RAdd(matrix[a][b], matrix[a][column])
        ELSE matrix[a][b]]])

one_minus_ratio(conversions, conversion_orig) ==
  ndarray([c \in DOMAIN conversions |-> RSub(One, RDiv(conversions[c], conversion_orig))])

\* removal_effect(matrix)[1:-2]: one entry per channel.
removal_effect(matrix) ==
  one_minus_ratio(ndarray([c \in 1..(Len(matrix) - 3) |->
                             calc_total_conversion(without_column(matrix, c + 1))]),
                  calc_total_conversion(matrix))

\* [chmap[x] * conversion_value for x in channels], then x / sum(x).
markov_journey(canais, names, results, value) ==
  DivideBySum([i \in DOMAIN canais |->
                 RMul(results[IndexOf(names, canais[i]) - 1], Int2R(value))])

markov_values(names, results) ==
  [j \in DOMAIN channels |->
     markov_journey(channels[j], names, results, conversion_value[j])]

\* value * n_purchases, for every credit of every journey.
times_purchases(channels_value, freq) ==
  [j \in DOMAIN channels_value |-> Scale(channels_value[j], Int2R(freq[j]))]

\* (self.journey_with_conv * self.conversion_value).sum()
total_conv_value == RSum(converted_value)

\* The frame of the channel weights scaled by the total converted value.
markov_frame(names, results) ==
  [c \in {names[k] : k \in 2..(Len(names) - 2)} |->
     RMul(results[IndexOf(names, c) - 1], total_conv_value)]

MarkovName == ModelName("attribution_markov_algorithmic", <<>>)

\* What attribution_markov returns, or None before any call returned.
NoMarkov ==
  [is_none |-> TRUE, channels_value |-> <<>>, frame |-> FrameStr,
   matrix |-> <<>>, names |-> <<>>, removal_effect |-> <<>>]

markov_write(gb, conversion_value_type, names, matrix, effect, channels_value, freq, frame_values) ==
  /\ DataFrame' = set_column(DataFrame, MarkovName,
                             times_purchases(rounded_column(channels_value), freq))
  /\ original_df' = set_column(original_df, MarkovName,
                               explode(times_purchases(channels_value, freq)))
  /\ IF gb /\ grouped_results_fails(group_by_channels_models, frame_values, MarkovName)
     THEN /\ outcome' = Outcome("attribution_markov", MarkovName, gb,
                                conversion_value_type, "MergeError", "")
          /\ UNCHANGED <<group_by_channels_models, markov>>
     ELSE /\ group_by_channels_models' =
               IF gb THEN grouped_results(group_by_channels_models, frame_values,
                                          MarkovName)
               ELSE group_by_channels_models
          /\ markov' = [is_none |-> FALSE,
                        channels_value |-> channels_value,
                        frame |-> IF gb THEN Frame(frame_values) ELSE FrameStr,
                        matrix |-> normalize_rows(matrix),
                        names |-> names,
                        removal_effect |-> effect]
          /\ outcome' = Outcome("attribution_markov", MarkovName, gb,
                                conversion_value_type, "ok", "")

markov_weights(gb, conversion_value_type, names, matrix, effect, results, freq) ==
  markov_write(gb, conversion_value_type, names, matrix, effect,
               markov_values(names, results), freq, markov_frame(names, results))

markov_effect(gb, conversion_value_type, names, matrix, effect, freq) ==
  markov_weights(gb, conversion_value_type, names, matrix, effect, DivideBySum(effect),
                 freq)

markov_matrix(gb, conversion_value_type, names, matrix, freq) ==
  markov_effect(gb, conversion_value_type, names, matrix, removal_effect(matrix), freq)

\* With no transition into "(conversion)" the matrix is one row short of
\* the names, and the frame of the results cannot be built on their index.
markov_names(gb, conversion_value_type, rows, names, freq) ==
  IF channel_max(rows, names) # Len(names)
  THEN /\ outcome' = Outcome("attribution_markov", MarkovName, gb, conversion_value_type,
                             "ValueError",
                             "Length of values does not match length of index")
       /\ UNCHANGED <<tables, markov>>
  ELSE markov_matrix(gb, conversion_value_type, names,
                     path_to_matrix(rows, names, Len(names), freq), freq)

markov_rows(gb, conversion_value_type, rows) ==
  markov_names(gb, conversion_value_type, rows, channels_names(rows),
               freq_values(conversion_value_type))

attribution_markov(transition_to_same_state, gb, conversion_value_type) ==
  /\ runs < MaxRuns
  /\ runs' = runs + 1
  /\ IF conversion_value_type \notin allowed_conversion_value_types
     THEN /\ outcome' = Outcome("attribution_markov", MarkovName, gb,
                                conversion_value_type, "ValueError",
                                "conversion_value_type must be one of the following: binary, integer, frequency, monetary")
          /\ UNCHANGED <<tables, markov>>
     ELSE markov_rows(gb, conversion_value_type, transitions(transition_to_same_state))
  /\ UNCHANGED <<journeys, stored, shapley>>

\* ------------------------------------------------------ the Shapley model
\* Python's "a in b" on two channel labels: a is a substring of b.
substring(a, b) == a = b \/ (a \in {"A", "B"} /\ b = "AB")

RECURSIVE factorial(_)
factorial(n) == IF n <= 0 THEN 1 ELSE n * factorial(n - 1)

\* sorted(list(set(channels)), key=channels.index): the distinct channels in
\* the order of their first touch.
RECURSIVE first_touch_order(_)
first_touch_order(canais) ==
  IF canais = <<>> THEN <<>>
  ELSE <<Head(canais)>>
       \o first_touch_order(SelectSeq(Tail(canais), LAMBDA c : c # Head(canais)))

\* channels[size * -1:]
last_slice(seq, size) ==
  IF size >= Len(seq) THEN seq ELSE SubSeq(seq, Len(seq) - size + 1, Len(seq))

\* The combination a journey is keyed by in journey_conversion_table.  A key
\* is the sequence of its labels: the labels of the model do not hold the
\* separator, so joining and splitting give the sequence back.
combination(canais, order, size) ==
  last_slice(IF order THEN first_touch_order(canais) ELSE sorted(Range(canais)), size)

journeys_of(key, order, size) ==
  {j \in DOMAIN channels : combination(channels[j], order, size) = key}

conversion_row(js) ==
  [conversions |-> Cardinality({j \in js : journey_with_conv[j]}),
   total_sequences |-> Cardinality(js),
   conversion_value |-> SumInts([j \in DOMAIN channels |->
                                   IF j \in js THEN conversion_value[j] ELSE 0])]

\* journey_conversion_table: combination -> conversions, total_sequences,
\* conversion_value (conv_rate is conversions / total_sequences).
journey_conversion_table(order, size) ==
  [key \in {combination(channels[j], order, size) : j \in DOMAIN channels} |->
     conversion_row(journeys_of(key, order, size))]

\* conv_table[conv_table.conversions > 0]
converted_rows(conv_table) ==
  [key \in {k \in DOMAIN conv_table : conv_table[k].conversions > 0} |-> conv_table[key]]

\* The value of a coalition: its values_col in the table of the converted
\* combinations (the custom value when a custom table was merged), and 0
\* for a coalition the table does not hold.
coalition_value(key, conv_table, values_col, custom) ==
  IF key \notin DOMAIN conv_table THEN Zero
  ELSE IF values_col = "conv_rate"
       THEN Norm(conv_table[key].conversions, conv_table[key].total_sequences)
  ELSE IF values_col = "custom_value"
       THEN (IF key \in DOMAIN custom THEN Int2R(custom[key]) ELSE Zero)
  ELSE Int2R(conv_table[key][values_col])

\* The coalitions of n channels but the empty one, each the set of its
\* positions in the list the combinations are drawn from.
coalitions(n) == (SUBSET (1..n)) \ {{}}

\* The list the coalitions are drawn from: the journey as it is, or sorted.
coalition_base(journey, order) == IF order THEN journey ELSE sorted(Range(journey))

coalition_key(base, positions) == SelectSeq(base, LAMBDA c : IndexOf(base, c) \in positions)

\* The boolean column of a channel: any(channel in s for s in channels).
coalition_flag(channel, base, positions) ==
  \E i \in positions : substring(channel, base[i])

\* len(coaux.iloc[line, :][coaux.iloc[line, :] != 0]): the flags set on a line.
coalition_size(journey, base, positions) ==
  Cardinality({i \in DOMAIN journey : coalition_flag(journey[i], base, positions)})

\* The entry the loop writes for a channel on a line.
shapley_term(flag, s, n, v) ==
  IF flag
  THEN RMul(Norm(factorial(s - 1) * factorial(n - s), factorial(n)), v)
  ELSE RMul(Norm(-(factorial(s) * factorial(n - s - 1)), factorial(n)), v)

RECURSIVE RSumSet(_, _)
RSumSet(S, f) ==
  IF S = {} THEN Zero
  ELSE RAdd(f[CHOOSE x \in S : TRUE], RSumSet(S \ {CHOOSE x \in S : TRUE}, f))

\* coa.sum() for one channel: its entries added over the lines.
shapley_value(channel, journey, base, v) ==
  RSumSet(DOMAIN v,
          [ps \in DOMAIN v |->
             shapley_term(coalition_flag(channel, base, ps),
                          coalition_size(journey, base, ps), Len(journey), v[ps])])

shapley_values(journey, base, v) ==
  ndarray([i \in DOMAIN journey |-> shapley_value(journey[i], journey, base, v)])

\* valores[1:]: the value of every coalition of the journey but the empty one.
valores(base, conv_table, values_col, custom) ==
  [ps \in coalitions(Len(base)) |->
     coalition_value(coalition_key(base, ps), conv_table, values_col, custom)]

\* results: the Shapley values of every converted combination.
shapley_results(conv_table, order, values_col, custom) ==
  [key \in DOMAIN conv_table |->
     shapley_values(key, coalition_base(key, order),
                    valores(coalition_base(key, order), conv_table, values_col, custom))]

\* shapley_scaled gone wrong: the raw values are kept.
shapley_scaled_raw(raw, row) == raw

\* x * total_sequences, x / x.sum(), then * conversion_value, for one row.
shapley_scaled(raw, row) ==
  Scale(DivideBySum(Scale(raw, Int2R(row.total_sequences))), Int2R(row.conversion_value))

\* conv_table[model_name]: the results scaled when values_col is conv_rate
\* or custom_value, and as they are otherwise.
shapley_column(conv_table, results, values_col) ==
  [key \in DOMAIN conv_table |->
     IF values_col \in {"conv_rate", "custom_value"}
     THEN shapley_scaled(results[key], conv_table[key])
     ELSE results[key]]

\* frame.groupby(["channels"])["value"].sum() over the exploded column; the
\* sum of a group skips NaN.
shapley_frame(column) ==
  [c \in UNION {Range(key) : key \in DOMAIN column} |->
     RSumSet({key \in DOMAIN column : c \in Range(key)},
             [key \in DOMAIN column |->
                IF c \in Range(key) THEN fillna0(column[key][IndexOf(key, c)])
                ELSE Zero])]

ShapleyName(size, values_col, order) ==
  ModelName("attribution_shapley_algorithmic", <<size, values_col, order>>)

\* What attribution_shapley returns, with the results list it computed, or
\* None before any call returned.
NoShapley ==
  [is_none |-> TRUE, conv_table |-> <<>>, results |-> <<>>, column |-> <<>>,
   frame |-> FrameStr]

shapley_write(model_name, gb, conv_table, results, column, frame_values) ==
  IF gb /\ grouped_results_fails(group_by_channels_models, frame_values, model_name)
  THEN /\ outcome' = Outcome("attribution_shapley", model_name, gb, "", "MergeError", "")
       /\ UNCHANGED <<group_by_channels_models, shapley>>
  ELSE /\ group_by_channels_models' =
            IF gb THEN grouped_results(group_by_channels_models, frame_values, model_name)
            ELSE group_by_channels_models
       /\ shapley' = [is_none |-> FALSE, conv_table |-> conv_table,
                      results |-> results, column |-> column,
                      frame |-> IF gb THEN Frame(frame_values) ELSE FrameStr]
       /\ outcome' = Outcome("attribution_shapley", model_name, gb, "", "ok", "")

shapley_columns(model_name, gb, conv_table, results, column) ==
  shapley_write(model_name, gb, conv_table, results, column, shapley_frame(column))

shapley_table(model_name, gb, conv_table, results, values_col) ==
  shapley_columns(model_name, gb, conv_table, results,
                  shapley_column(conv_table, results, values_col))

shapley_model(size, order, values_col, custom, gb, conv_table) ==
  shapley_table(ShapleyName(size, values_col, order), gb, conv_table,
                shapley_results(conv_table, order, values_col, custom), values_col)

\* merge_custom_values is <<>> for None, else <<table>>, the table a function
\* from combinations to custom values; with a table, values_col becomes
\* "custom_value".
attribution_shapley(size, order, values_col, merge_custom_values, gb) ==
  /\ runs < MaxRuns
  /\ runs' = runs + 1
  /\ IF merge_custom_values = <<>>
     THEN shapley_model(size, order, values_col, <<>>, gb,
                        converted_rows(journey_conversion_table(order, size)))
     ELSE shapley_model(size, order, "custom_value", merge_custom_values[1], gb,
                        converted_rows(journey_conversion_table(order, size)))
  /\ UNCHANGED <<journeys, DataFrame, original_df, stored, markov>>

\* ------------------------------------------ journey_id_based_on_conversion
\* journey_rnk gone wrong: the row of a transaction keeps the cumulated count.
journey_rnk_kept(df, i) ==
  SumInts([k \in 1..i |->
             IF df.user_id[k] = df.user_id[i] /\ df.has_transaction[k] # FALSE THEN 1 ELSE 0])

\* df.groupby(group_id)["journey_id"].cumsum() of the column that is 0 where
\* the transaction column is False and 1 elsewhere, at row i.
cumsum(df, i) ==
  SumInts([k \in 1..i |->
             IF df.user_id[k] = df.user_id[i] /\ df.has_transaction[k] # FALSE THEN 1 ELSE 0])

\* .where(df[transaction_colname] == False, t), t the cumulated count less 1.
journey_rnk(df, i) ==
  IF df.has_transaction[i] = FALSE THEN cumsum(df, i) ELSE cumsum(df, i) - 1

\* df_temp[i] = df_temp[i].apply(str) for the group column.
apply_str(df) ==
  [df EXCEPT !.user_id = [i \in DOMAIN df.user_id |-> ToString(df.user_id[i])]]

\* The columns journey_rnk and journey_id, "id:" + user + "_J:" + rank,
\* added to a frame whose group column holds strings.
journey_columns(df) ==
  [c \in DOMAIN df \cup {"journey_rnk", "journey_id"} |->
     IF c = "journey_rnk" THEN [i \in DOMAIN df.user_id |-> journey_rnk(df, i)]
     ELSE IF c = "journey_id"
          THEN [i \in DOMAIN df.user_id |->
                  "id:" \o df.user_id[i] \o "_J:" \o ToString(journey_rnk(df, i))]
     ELSE df[c]]

\* The frame the function returns.
df_temp(df) == journey_columns(apply_str(df))

\* The call the constructor makes on the sessions it has sorted by user and
\* timestamp and copied to self.original_df.
journey_id_based_on_conversion(df) ==
  /\ runs = 0
  /\ runs' = runs + 1
  /\ outcome' = [op |-> "journey_id_based_on_conversion", model_name |-> NoName,
                 gb |-> FALSE, conversion_value_type |-> "", result |-> "ok", diag |-> "",
                 returned |-> <<df_temp(df)>>]
  /\ UNCHANGED <<journeys, tables, stored, markov, shapley>>

\* ------------------------------------ channels_journey_time_based_overwrite
\* time_till_conv_window gone wrong: the entry of the first touch is left out.
time_till_conv_window_short(hours, time_window) ==
  [i \in 1..(Len(hours) - 1) |-> Abs(hours[i] - hours[i + 1])]

\* [time_window + 1] + [time - time_till_conv[i + 1] for i < len - 1], in
\* absolute value: for every touch but the first, the hours since the touch
\* before it.
time_till_conv_window(hours, time_window) ==
  <<Abs(time_window + 1)>> \o [i \in 1..(Len(hours) - 1) |-> Abs(hours[i] - hours[i + 1])]

\* seq[i] as Python reads it, i counted from 0 and -1 the last element.
python_index(seq, i) == seq[IF i < 0 THEN Len(seq) + i + 1 ELSE i + 1]

\* One pass of the loop over zip(x.channels, x.time_till_conv_window): the
\* list comprehension reads the channels as they were before the pass.
overwrite_pass(canais, window, selected_channel, time_window) ==
  [k \in 1..(IF Len(canais) <= Len(window) THEN Len(canais) ELSE Len(window)) |->
     IF canais[k] = selected_channel /\ window[k] < time_window
     THEN python_index(canais, k - 2)
     ELSE canais[k]]

\* while loop_count < order
RECURSIVE overwrite_loop(_, _, _, _, _)
overwrite_loop(canais, window, selected_channel, time_window, order) ==
  IF order <= 0 THEN canais
  ELSE overwrite_loop(overwrite_pass(canais, window, selected_channel, time_window),
                      window, selected_channel, time_window, order - 1)

overwrite_write(selected_channel, time_window, order, inplace, new_channels) ==
  /\ channels' = IF inplace THEN new_channels ELSE channels
  /\ outcome' = [op |-> "channels_journey_time_based_overwrite",
                 model_name |-> ModelName("", <<selected_channel, time_window, order, inplace>>),
                 gb |-> FALSE, conversion_value_type |-> "", result |-> "ok", diag |-> "",
                 returned |-> IF inplace THEN <<>> ELSE <<new_channels>>]

\* With self.time_till_conv None the first statement calls .apply on None.
\* returned is <<>> for None, else <<the new channels>>.
channels_journey_time_based_overwrite(selected_channel, time_window, order, inplace) ==
  /\ runs < MaxRuns
  /\ runs' = runs + 1
  /\ IF time_till_conv = <<>>
     THEN /\ outcome' = [op |-> "channels_journey_time_based_overwrite",
                         model_name |-> ModelName("", <<selected_channel, time_window, order, inplace>>),
                         gb |-> FALSE, conversion_value_type |-> "",
                         result |-> "AttributeError", diag |-> "", returned |-> <<>>]
          /\ UNCHANGED channels
     ELSE overwrite_write(selected_channel, time_window, order, inplace,
            [j \in DOMAIN channels |->
               overwrite_loop(channels[j],
                              time_till_conv_window(time_till_conv[1][j], time_window),
                              selected_channel, time_window, order)])
  /\ UNCHANGED <<journey_with_conv, conversion_value, time_till_conv, tables, stored, markov, shapley>>

\* ------------------------------------------------------------ the getters
\* The private attribute a getter tests against None before it reads its
\* own: time_decay_channels tests self.__first_click.
getter_tested(attr, part) ==
  IF attr = "__time_decay" /\ part = "channels" THEN "__first_click" ELSE attr

\* What a getter does: a warning and nothing returned when the tested
\* attribute is None, else element 0 (journeys) or 1 (channels) of the pair
\* it reads, and the TypeError of subscripting None when that one is None.
getter_return(tested, read, part) ==
  IF tested.is_none THEN [result |-> "warning", value |-> <<>>]
  ELSE IF read.is_none THEN [result |-> "TypeError", value |-> <<>>]
  ELSE [result |-> "ok",
        value |-> <<IF part = "journeys" THEN read.channels_value ELSE read.frame>>]

\* <model>_journeys() and <model>_channels(), the model given by its
\* attribute; returned is <<>> for None, else <<the value>>.
getter(attr, part, r) ==
  /\ runs < MaxRuns
  /\ runs' = runs + 1
  /\ outcome' = [op |-> "getter", model_name |-> ModelName(attr, <<part>>), gb |-> FALSE,
                 conversion_value_type |-> "", result |-> r.result, diag |-> "",
                 returned |-> r.value]
  /\ UNCHANGED <<journeys, tables, stored, markov, shapley>>

\* -------------------------------------------------- attribution_all_models
\* The methods attribution_all_models can call, in the order it calls them.
all_models ==
  <<"attribution_last_click", "attribution_last_click_non", "attribution_first_click",
    "attribution_linear", "attribution_position_based", "attribution_time_decay",
    "attribution_shapley", "attribution_markov">>

\* heuristic and algorithmic, as model_type sets them.
model_type_runs(model_type, m) ==
  IF m \in {"attribution_shapley", "attribution_markov"}
  THEN model_type # "heuristic"
  ELSE model_type \in {"all", "heuristic"}

\* exclude_models is <<>> for None, else <<names>>.  Every call is guarded by
\* "exclude_models and <name> not in exclude_models", and None and the empty
\* list are both false.
called_models(model_type, exclude_models) ==
  IF exclude_models = <<>> \/ exclude_models[1] = {} THEN <<>>
  ELSE SelectSeq(all_models,
                 LAMBDA m : model_type_runs(model_type, m) /\ m \notin exclude_models[1])

\* One call of attribution_all_models, with the arguments it passes on.
all_models_call(m, gb) ==
  CASE m = "attribution_last_click" -> attribution_last_click(gb)
    [] m = "attribution_last_click_non" -> attribution_last_click_non("Direct", TRUE)
    [] m = "attribution_first_click" -> attribution_first_click(gb)
    [] m = "attribution_linear" -> attribution_linear(gb)
    [] m = "attribution_position_based" ->
         attribution_position_based(<<Norm(4, 10), Norm(2, 10), Norm(4, 10)>>, gb)
    [] m = "attribution_time_decay" -> attribution_time_decay(Norm(1, 2), 128, gb)
    [] m = "attribution_shapley" -> attribution_shapley(4, FALSE, "conv_rate", <<>>, gb)
    [] m = "attribution_markov" -> attribution_markov(FALSE, TRUE, "binary")

\* The calls made one after the other; the model takes the exclusion lists
\* that leave at most one call.  With no call nothing is written, and the
\* method returns self.group_by_channels_models as it is.
all_models_calls(model_type, exclude_models, gb, called) ==
  /\ Len(called) <= 1
  /\ IF called = <<>>
     THEN /\ runs < MaxRuns
          /\ runs' = runs + 1
          /\ outcome' = Outcome("attribution_all_models",
                                ModelName("", <<model_type, exclude_models>>),
                                gb, "", "ok", "")
          /\ UNCHANGED <<journeys, tables, stored, markov, shapley>>
     ELSE all_models_call(called[1], gb)

attribution_all_models(model_type, exclude_models, gb) ==
  all_models_calls(model_type, exclude_models, gb,
                   called_models(model_type, exclude_models))

\* ------------------------------------------------------- initial states
NoColumns == [k \in {} |-> <<>>]

Fresh ==
  /\ DataFrame = NoColumns
  /\ original_df = NoColumns
  /\ group_by_channels_models = NoTable
  /\ stored = [a \in Attributes |-> None]
  /\ markov = NoMarkov
  /\ shapley = NoShapley
  /\ outcome = Outcome("__init__", NoName, FALSE, "", "ok", "")
  /\ runs = 0

\* Channel sequences of 1..n touches over the labels L.
Paths(L, n) == UNION {[1..k -> L] : k \in 1..n}

\* Elapsed hours of k touches in time order: the sessions are sorted by
\* timestamp, so the time left until the conversion never grows.
HoursOf(k) ==
  {h \in [1..k -> 0..MaxHours] : \A i \in 1..(k - 1) : h[i] >= h[i + 1]}

JourneyLabels == {"A", "Direct"}

\* Touches one hour apart, the last one at the conversion; no touch more
\* than MaxHours before it.
SpacedHours(k) == [i \in 1..k |-> IF k - i > MaxHours THEN MaxHours ELSE k - i]

\* One journey of any shape within the bounds, without timing or with its
\* touches one hour apart.
InitJourney ==
  /\ \E p \in Paths(JourneyLabels, MaxLen), c \in BOOLEAN, v \in 0..MaxValue :
       /\ channels = <<p>>
       /\ journey_with_conv = <<c>>
       /\ conversion_value = <<v>>
       /\ time_till_conv \in {<<>>, <<(<<SpacedHours(Len(p))>>)>>}
  /\ Fresh

\* One journey of any shape within the bounds, with any timing.
InitDecay ==
  /\ \E p \in Paths(JourneyLabels, MaxLen), c \in BOOLEAN, v \in 0..MaxValue :
       /\ channels = <<p>>
       /\ journey_with_conv = <<c>>
       /\ conversion_value = <<v>>
       /\ time_till_conv \in {<<(<<h>>)>> : h \in HoursOf(Len(p))}
  /\ Fresh

\* The journeys the collections of the object-level specification are made
\* of: a converted two-touch journey, an unconverted single touch, and a
\* converted journey that starts and ends on Direct.  The value is the
\* constructor's integer conversion_value for a converted journey, else 0.
Pool ==
  << [channels |-> <<"A", "Direct">>, conv |-> TRUE, value |-> 1, hours |-> <<1, 0>>],
     [channels |-> <<"B">>, conv |-> FALSE, value |-> 0, hours |-> <<2>>],
     [channels |-> <<"Direct", "B", "Direct">>, conv |-> TRUE, value |-> 1,
      hours |-> <<2, 1, 0>>] >>

\* The collections of 1..n journeys of the pool, a journey possibly more
\* than once, in the order of the pool.
Collections(n) ==
  UNION {{[j \in 1..k |-> Pool[ix[j]]] :
            ix \in {f \in [1..k -> DOMAIN Pool] :
                      \A j \in 1..(k - 1) : f[j] <= f[j + 1]}} : k \in 1..n}

Init ==
  /\ \E js \in Collections(MaxJourneys) :
       /\ channels = [j \in DOMAIN js |-> js[j].channels]
       /\ journey_with_conv = [j \in DOMAIN js |-> js[j].conv]
       /\ conversion_value = [j \in DOMAIN js |-> js[j].value]
       /\ time_till_conv \in {<<>>, <<[j \in DOMAIN js |-> js[j].hours]>>}
  /\ Fresh

\* The labels of the Shapley specification: "A" and "B" are substrings of
\* "AB".
ShapleyLabels == {"A", "AB", "B"}

\* The journeys that may come second in a collection of the Shapley
\* specification: a converted single touch and an unconverted one.
Companions ==
  { [channels |-> <<"AB">>, conv |-> TRUE, value |-> 1],
    [channels |-> <<"A">>, conv |-> FALSE, value |-> 1] }

\* One journey of any shape within the bounds, alone or with a companion.
InitShapley ==
  /\ \E p \in Paths(ShapleyLabels, MaxTouches), c \in BOOLEAN, v \in 1..MaxValue :
       \E rest \in {<<>>} \cup {<<q>> : q \in Companions} :
         /\ channels = <<p>> \o [k \in DOMAIN rest |-> rest[k].channels]
         /\ journey_with_conv = <<c>> \o [k \in DOMAIN rest |-> rest[k].conv]
         /\ conversion_value = <<v>> \o [k \in DOMAIN rest |-> rest[k].value]
         /\ time_till_conv = <<>>
  /\ Fresh

\* ------------------------------------------------------ parameter ranges
Tenths(a, b, c) == <<Norm(a, 10), Norm(b, 10), Norm(c, 10)>>

\* The default [0.4, 0.2, 0.4] and two triples whose ends differ.
PositionLists == {Tenths(4, 2, 4), Tenths(5, 3, 2), Tenths(2, 3, 5)}

\* decay_over_time in (0, 1): the default 0.5, and 2/3.
Decays == {Norm(1, 2), Norm(2, 3)}

Frequencies == {1, 2}

\* size: the default 4, which truncates no journey of the model, and two
\* sizes that do.
Sizes == {1, 2, 4}

\* values_col: the columns of journey_conversion_table.
ValuesCols == {"conv_rate", "conversions", "total_sequences", "conversion_value"}

\* merge_custom_values: None, or a table of two combinations.
CustomTables == {<<>>, <<[key \in {<<"A">>, <<"A", "B">>} |-> Len(key)]>>}

\* conversion_value_type: the four values the method accepts and one it
\* does not.
ConversionValueTypes == {"binary", "integer", "frequency", "monetary", "percentage"}

\* One call of one model, with any parameters of the ranges.
Next ==
  \/ \E gb \in BOOLEAN : attribution_last_click(gb)
  \/ \E gb \in BOOLEAN : attribution_last_click_non("Direct", gb)
  \/ \E gb \in BOOLEAN : attribution_first_click(gb)
  \/ \E gb \in BOOLEAN : attribution_linear(gb)
  \/ \E gb \in BOOLEAN : attribution_position_based(Tenths(4, 2, 4), gb)
  \/ \E gb \in BOOLEAN : attribution_time_decay(Norm(1, 2), 1, gb)
  \/ \E gb \in BOOLEAN, t \in {"binary", "percentage"} : attribution_markov(FALSE, gb, t)
  \/ \E gb \in BOOLEAN : attribution_shapley(4, FALSE, "conv_rate", <<>>, gb)

Spec == Init /\ [][Next]_vars

\* A single call on a single journey, over the whole parameter ranges.
NextJourney ==
  /\ runs = 0
  /\ \/ \E gb \in BOOLEAN : attribution_last_click(gb)
     \/ \E x \in JourneyLabels, gb \in BOOLEAN : attribution_last_click_non(x, gb)
     \/ \E gb \in BOOLEAN : attribution_first_click(gb)
     \/ \E gb \in BOOLEAN : attribution_linear(gb)
     \/ \E lst \in PositionLists, gb \in BOOLEAN : attribution_position_based(lst, gb)
     \/ \E d \in Decays, f \in Frequencies, gb \in BOOLEAN :
          attribution_time_decay(d, f, gb)
     \/ \E s \in BOOLEAN, gb \in BOOLEAN, t \in ConversionValueTypes :
          attribution_markov(s, gb, t)

SpecJourney == InitJourney /\ [][NextJourney]_vars

\* A single Shapley call, over the whole parameter ranges.
NextShapley ==
  /\ runs = 0
  /\ \E size \in Sizes, order \in BOOLEAN :
       \/ \E values_col \in ValuesCols :
            attribution_shapley(size, order, values_col, <<>>, TRUE)
       \/ \E custom \in CustomTables \ {<<>>} :
            attribution_shapley(size, order, "conv_rate", custom, TRUE)

SpecShapley == InitShapley /\ [][NextShapley]_vars

\* exclude_models: None, the empty list, the list of every model, and the
\* lists that leave one model out.
ExcludeLists ==
  {<<>>, <<{}>>, <<Range(all_models)>>} \cup {<<Range(all_models) \ {m}>> : m \in Range(all_models)}

ModelTypes == {"all", "heuristic", "algorithmic"}

\* Calls of attribution_all_models on a collection of journeys.
NextAll ==
  \E model_type \in ModelTypes, exclude_models \in ExcludeLists, gb \in BOOLEAN :
    attribution_all_models(model_type, exclude_models, gb)

SpecAll == Init /\ [][NextAll]_vars

\* Heuristic models run on a collection of journeys, and getters called.
NextGetters ==
  \/ \E gb \in BOOLEAN : attribution_last_click(gb)
  \/ \E gb \in BOOLEAN : attribution_last_click_non("Direct", gb)
  \/ \E gb \in BOOLEAN : attribution_first_click(gb)
  \/ \E gb \in BOOLEAN : attribution_linear(gb)
  \/ \E gb \in BOOLEAN : attribution_position_based(Tenths(4, 2, 4), gb)
  \/ \E gb \in BOOLEAN : attribution_time_decay(Norm(1, 2), 1, gb)
  \/ \E attr \in Attributes, part \in {"journeys", "channels"} :
       getter(attr, part, getter_return(stored[getter_tested(attr, part)], stored[attr], part))

SpecGetters == Init /\ [][NextGetters]_vars

\* time_window in hours: two windows within the hours of the model and the
\* default 24; order: no pass, the default 1, and 2.
TimeWindows == {1, 2, 24}

Orders == {0, 1, 2}

\* A single overwrite of a single journey with any timing.
NextOverwrite ==
  /\ runs = 0
  /\ \E selected_channel \in JourneyLabels, time_window \in TimeWindows :
       \E order \in Orders, inplace \in BOOLEAN :
         channels_journey_time_based_overwrite(selected_channel, time_window, order, inplace)

SpecOverwrite == InitDecay /\ [][NextOverwrite]_vars

\* The sessions of up to two users, sorted by user and, within a user, by
\* timestamp, any of them with a transaction.
Sessions ==
  UNION {{[user_id |-> u, has_transaction |-> t] :
            u \in {w \in [1..k -> 1..2] : \A i \in 1..(k - 1) : w[i] <= w[i + 1]},
            t \in [1..k -> BOOLEAN]} : k \in 1..MaxSessions}

\* The constructor at the call: the sessions are in self.original_df and
\* no journey has been grouped yet.
InitSessions ==
  /\ original_df \in Sessions
  /\ channels = <<>>
  /\ journey_with_conv = <<>>
  /\ conversion_value = <<>>
  /\ time_till_conv = <<>>
  /\ DataFrame = NoColumns
  /\ group_by_channels_models = NoTable
  /\ stored = [a \in Attributes |-> None]
  /\ markov = NoMarkov
  /\ shapley = NoShapley
  /\ outcome = Outcome("__init__", NoName, FALSE, "", "ok", "")
  /\ runs = 0

NextSessions == journey_id_based_on_conversion(original_df)

SpecSessions == InitSessions /\ [][NextSessions]_vars

\* A single time-decay call on a single journey with any timing.
NextDecay ==
  /\ runs = 0
  /\ \E d \in Decays, f \in Frequencies : attribution_time_decay(d, f, TRUE)

SpecDecay == InitDecay /\ [][NextDecay]_vars

\* ---------------------------------------------------------------- claims
\* The latest call was op and returned normally.
Ran(op) == outcome.op = op /\ outcome.result = "ok"

\* What a journey is due: its conversion value when it converted, else 0.
Due(j) == Int2R(conversion_value[j] * BoolInt(journey_with_conv[j]))

\* vec has n entries: amount at position pos and 0 everywhere else.
AllAt(vec, n, pos, amount) ==
  /\ DOMAIN vec = 1..n
  /\ \A i \in 1..n : vec[i] = IF i = pos THEN amount ELSE Zero

\* C1 (conservation): whatever model produced it, the credit vector of a
\* journey sums to the journey's conversion value when the journey converted
\* and to 0 when it did not.
C1_Conservation ==
  /\ \A a \in Attributes :
       ~stored[a].is_none =>
         \A j \in DOMAIN channels : RSum(stored[a].channels_value[j]) = Due(j)
  /\ ~markov.is_none =>
       \A j \in DOMAIN channels : RSum(markov.channels_value[j]) = Due(j)

\* C2 (aggregate table idempotence): a run of a model whose column the
\* aggregate table already holds leaves the table as it was: the column is
\* overwritten with the same values, not duplicated or renamed.
C2_Idempotent ==
  [][(runs' = runs + 1 /\ outcome'.result = "ok"
      /\ outcome'.model_name \in Range(group_by_channels_models.columns))
     => group_by_channels_models' = group_by_channels_models]_vars

\* C3 (time decay without timing): with time_till_conv None the time-decay
\* model prints its diagnostic, returns normally and adds no column to the
\* journey table or the aggregate table.
C3_TimeDecaySkipped ==
  (outcome.op = "attribution_time_decay" /\ time_till_conv = <<>>) =>
    /\ outcome.result = "ok"
    /\ outcome.diag # ""
    /\ outcome.model_name \notin DOMAIN DataFrame
    /\ outcome.model_name \notin Range(group_by_channels_models.columns)

\* The last position whose channel is not x, or the last position when
\* every touch is x.
C4_Position(canais, x) ==
  IF \A i \in 1..Len(canais) : canais[i] = x THEN Len(canais)
  ELSE CHOOSE i \in 1..Len(canais) :
         /\ canais[i] # x
         /\ \A k \in (i + 1)..Len(canais) : canais[k] = x

\* C4 (last click excluding a channel): the whole credit of a journey goes
\* to the last position whose channel differs from the excluded one, or to
\* the last position when every touch is the excluded channel.
C4_LastClickNon ==
  Ran("attribution_last_click_non") =>
    \A j \in DOMAIN channels :
      AllAt(stored["__last_click_non"].channels_value[j], Len(channels[j]),
            C4_Position(channels[j], outcome.model_name.params[1]), Due(j))

\* The weight the position-based model gives position i of n touches:
\* first f, last f, the middle ones m/(n-2); f + m/2 and l + m/2 for two
\* touches; 1 for a single touch.
C5_Weight(lst, n, i) ==
  IF n = 1 THEN One
  ELSE IF n = 2 THEN (IF i = 1 THEN RAdd(lst[1], RDiv(lst[2], Int2R(2)))
                      ELSE RAdd(lst[3], RDiv(lst[2], Int2R(2))))
  ELSE IF i = 1 \/ i = n THEN lst[1]
  ELSE RDiv(lst[2], Int2R(n - 2))

C6_FirstAndLastWeights ==
  Ran("attribution_position_based") =>
    \A j \in DOMAIN channels :
      (journey_with_conv[j] /\ Len(channels[j]) >= 3) =>
        /\ stored["__position_based"].channels_value[j][1]
             = RMul(outcome.model_name.params[1], Due(j))
        /\ stored["__position_based"].channels_value[j][Len(channels[j])]
             = RMul(outcome.model_name.params[3], Due(j))

\* C7 (first and last click): first click gives the conversion value to the
\* first position and last click to the last position of a converted
\* journey, 0 to every other position, and all zeros to a journey that did
\* not convert.
C7_FirstLastClick ==
  /\ Ran("attribution_first_click") =>
       \A j \in DOMAIN channels :
         AllAt(stored["__first_click"].channels_value[j], Len(channels[j]), 1, Due(j))
  /\ Ran("attribution_last_click") =>
       \A j \in DOMAIN channels :
         AllAt(stored["__last_click"].channels_value[j], Len(channels[j]),
               Len(channels[j]), Due(j))

C7_Witness ==
  /\ Ran("attribution_last_click")
  /\ channels = << <<"A", "Direct", "A">> >>
  /\ journey_with_conv = <<TRUE>>
  /\ conversion_value = <<2>>
  /\ stored["__last_click"].channels_value = << <<Zero, Zero, Int2R(2)>> >>

\* C8 (linear): every position of a converted journey of n touches receives
\* conversion_value / n, and every position of a journey that did not
\* convert receives 0.
C8_Linear ==
  Ran("attribution_linear") =>
    \A j \in DOMAIN channels :
      /\ DOMAIN stored["__linear"].channels_value[j] = 1..Len(channels[j])
      /\ \A i \in 1..Len(channels[j]) :
           stored["__linear"].channels_value[j][i]
             = IF journey_with_conv[j] THEN Norm(conversion_value[j], Len(channels[j]))
               ELSE Zero

C8_Witness ==
  /\ Ran("attribution_linear")
  /\ Len(channels[1]) = 4
  /\ journey_with_conv[1]
  /\ conversion_value[1] = 2
  /\ stored["__linear"].channels_value[1]
       = <<Norm(1, 2), Norm(1, 2), Norm(1, 2), Norm(1, 2)>>

\* d^floor(h/F) as a number, for decay d = p/q.
C9_Raw(d, h, f) == Norm(Pow(d.n, h \div f), Pow(d.d, h \div f))

C9_Total(d, hs, f) == RSum([k \in DOMAIN hs |-> C9_Raw(d, hs[k], f)])

C9_Journey(cv, hs, d, f, due) ==
  /\ DOMAIN cv = DOMAIN hs
  /\ \A i \in DOMAIN hs :
       RMul(cv[i], C9_Total(d, hs, f)) = RMul(C9_Raw(d, hs[i], f), due)
  /\ RSum(cv) = due
  /\ \A i, k \in DOMAIN hs : (hs[i] \div f) >= (hs[k] \div f) => RLeq(cv[i], cv[k])

C10_InvalidTypeRaises ==
  [][(/\ runs' = runs + 1
      /\ outcome'.op = "attribution_markov"
      /\ outcome'.conversion_value_type
           \notin {"binary", "integer", "frequency", "monetary"})
     => /\ outcome'.result = "ValueError"
        /\ outcome'.diag
             = "conversion_value_type must be one of the following: binary, integer, frequency, monetary"
        /\ UNCHANGED <<journeys, tables, stored, markov>>]_vars

C10_Witness ==
  /\ outcome.op = "attribution_markov"
  /\ outcome.conversion_value_type = "percentage"
  /\ outcome.result = "ValueError"
  /\ runs = 2
  /\ group_by_channels_models.is_df
  /\ ~stored["__linear"].is_none

\* The private attribute a heuristic method stores its result in.
AttributeOf(op) ==
  CASE op = "attribution_first_click" -> "__first_click"
    [] op = "attribution_last_click" -> "__last_click"
    [] op = "attribution_last_click_non" -> "__last_click_non"
    [] op = "attribution_linear" -> "__linear"
    [] op = "attribution_position_based" -> "__position_based"
    [] op = "attribution_time_decay" -> "__time_decay"

\* The step is a model run with aggregation enabled that returned.
AggregatingRun ==
  runs' = runs + 1 /\ outcome'.gb /\ outcome'.result = "ok"

\* The frame the run of the step returned: channel -> grouped value.
ReportedFrame ==
  IF outcome'.op = "attribution_markov" THEN markov'.frame.values
  ELSE IF outcome'.op = "attribution_shapley" THEN shapley'.frame.values
  ELSE stored'[AttributeOf(outcome'.op)].frame.values

C13_Aligned(vs) ==
  /\ DOMAIN vs = DOMAIN channels
  /\ \A j \in DOMAIN channels : DOMAIN vs[j] = DOMAIN channels[j]

\* C13 (credit vectors are aligned with the journeys): every credit vector a
\* model produced for a journey has one entry per touch of that journey:
\* the stored vectors of the heuristic models, the vectors attribution_markov
\* returned, and the vector attribution_shapley returned for the combination
\* the journey is keyed by.
C13_VectorLength ==
  /\ \A a \in Attributes : ~stored[a].is_none => C13_Aligned(stored[a].channels_value)
  /\ ~markov.is_none => C13_Aligned(markov.channels_value)
  /\ Ran("attribution_shapley") =>
       \A j \in DOMAIN channels :
         combination(channels[j], outcome.model_name.params[3],
                     outcome.model_name.params[1]) \in DOMAIN shapley.column
           => DOMAIN shapley.column[combination(channels[j],
                                                outcome.model_name.params[3],
                                                outcome.model_name.params[1])]
                = DOMAIN channels[j]

\* C14 (Markov per-journey redistribution): in binary value mode the vector
\* attribution_markov returns for a journey, and the credits it writes for
\* the journey in the original data frame, sum to the journey's
\* conversion_value.
C14_MarkovJourney ==
  (Ran("attribution_markov") /\ outcome.conversion_value_type = "binary") =>
    \A j \in DOMAIN channels :
      /\ RSum(markov.channels_value[j]) = Int2R(conversion_value[j])
      /\ RSum(DataFrame[MarkovName][j]) = Int2R(conversion_value[j])

\* The channels of the Markov result, in the order of its names.
C15_Channels == [k \in 1..(Len(markov.names) - 3) |-> markov.names[k + 1]]

\* C15 (Markov channel weights and column): the weight of a channel is its
\* removal effect over the sum of the removal effects, the frame
\* attribution_markov returns and writes in the aggregate table holds each
\* channel's weight times the total converted value, and so that column
\* sums to the total converted value.
C15_MarkovColumn ==
  (Ran("attribution_markov") /\ outcome.gb) =>
    /\ DOMAIN markov.frame.values = Range(C15_Channels)
    /\ \A k \in DOMAIN C15_Channels :
         /\ markov.frame.values[C15_Channels[k]]
              = RMul(RDiv(markov.removal_effect[k], RSum(markov.removal_effect)),
                     total_conv_value)
         /\ IsFinite(markov.frame.values[C15_Channels[k]])
         /\ group_by_channels_models.rows[C15_Channels[k]]
              = <<markov.frame.values[C15_Channels[k]]>>
    /\ RSum([k \in DOMAIN C15_Channels |-> markov.frame.values[C15_Channels[k]]])
         = total_conv_value

\* The states the chain of matrix M reaches from the states S over
\* transitions of positive probability, never entering the state avoid
\* (0 to avoid none).
RECURSIVE C16_Reach(_, _, _)
C16_Reach(M, avoid, S) ==
  IF S \cup {b \in (1..Len(M)) \ {avoid} : \E a \in S : M[a][b] # Zero} = S THEN S
  ELSE C16_Reach(M, avoid,
                 S \cup {b \in (1..Len(M)) \ {avoid} : \E a \in S : M[a][b] # Zero})

C17_InUnit(x) == IsFinite(x) /\ RLeq(Zero, x) /\ RLeq(x, One)

C18_ValuesCol == outcome.model_name.params[2]

\* C18 (Shapley efficiency): for every combination attribution_shapley
\* processed with a column of the conversion table as values_col, the raw
\* Shapley values of its channels add up to the value of the coalition of
\* all its channels (the empty coalition being worth 0).
C18_Efficiency ==
  (Ran("attribution_shapley") /\ C18_ValuesCol # "custom_value") =>
    \A key \in DOMAIN shapley.results :
      RSum(shapley.results[key])
        = coalition_value(key, shapley.conv_table, C18_ValuesCol, <<>>)

\* The same where no label of a combination is a substring of another.
C18_EfficiencyPlain ==
  (Ran("attribution_shapley") /\ C18_ValuesCol # "custom_value") =>
    \A key \in DOMAIN shapley.results :
      (\A a, b \in Range(key) : substring(a, b) => a = b)
        => RSum(shapley.results[key])
             = coalition_value(key, shapley.conv_table, C18_ValuesCol, <<>>)

\* The vector scaled is the vector raw renormalized to add up to total.
C19_Renormalized(scaled, raw, total) ==
  /\ DOMAIN scaled = DOMAIN raw
  /\ RSum(scaled) = total
  /\ \A i \in DOMAIN raw : RMul(scaled[i], RSum(raw)) = RMul(raw[i], total)

C20_Recent(journey, size) == last_slice(first_touch_order(journey), size)

C20_Key(journey, size, order) ==
  IF order THEN C20_Recent(journey, size) ELSE sorted(Range(C20_Recent(journey, size)))

\* C20 (Shapley size truncation): a converted journey with more distinct
\* channels than size is keyed in the conversion table by its most recent
\* size distinct channels, with order = False and with order = True.
C20_Truncation ==
  Ran("attribution_shapley") =>
    \A j \in DOMAIN channels :
      (journey_with_conv[j] /\ Cardinality(Range(channels[j])) > outcome.model_name.params[1])
        => C20_Key(channels[j], outcome.model_name.params[1], outcome.model_name.params[3])
             \in DOMAIN shapley.conv_table

\* Every number of a vector, and of every vector of a column, is finite.
C21_Finite(vec) == \A i \in DOMAIN vec : IsFinite(vec[i])

C21_AllFinite(column) == \A k \in DOMAIN column : C21_Finite(column[k])

\* C21 (zero-sum normalization): no NaN or infinity reaches an output of
\* the algorithmic models: the removal effects, the per-journey vectors and
\* the channel frame attribution_markov returns, and the vectors and the
\* channel frame attribution_shapley returns.
C21_NoNaN ==
  /\ ~markov.is_none =>
       /\ C21_Finite(markov.removal_effect)
       /\ C21_AllFinite(markov.channels_value)
       /\ C21_Finite(markov.frame.values)
  /\ ~shapley.is_none =>
       /\ C21_AllFinite(shapley.column)
       /\ C21_Finite(shapley.frame.values)

\* The columns of the table attribution_all_models returned: the aggregate
\* table, which is None before any model has written it.
C22_Columns == {group_by_channels_models.columns[k].base : k \in DOMAIN group_by_channels_models.columns}

\* C22 (attribution_all_models runs every model): after a call with
\* model_type "all" and exclude_models left at None, the aggregate table the
\* call returns is a data frame holding a column of each of the eight
\* models.
C22_AllModelsRun ==
  (/\ outcome.op = "attribution_all_models"
   /\ outcome.model_name.params = <<"all", <<>> >>)
    => /\ group_by_channels_models.is_df
       /\ Cardinality(C22_Columns) = Len(all_models)

\* C23 (getters track their own model): a getter returns the journeys or
\* the channels part of its model's stored result when that model has been
\* run, and warns and returns nothing when it has not, whatever other
\* models have been run.
C23_GetterOwnModel ==
  outcome.op = "getter" =>
    IF stored[outcome.model_name.base].is_none
    THEN outcome.result = "warning" /\ outcome.returned = <<>>
    ELSE /\ outcome.result = "ok"
         /\ outcome.returned =
              <<IF outcome.model_name.params[1] = "journeys"
                THEN stored[outcome.model_name.base].channels_value
                ELSE stored[outcome.model_name.base].frame>>

\* The step is an overwrite that returned; its arguments; its new channels.
C24_Overwrote ==
  outcome'.op = "channels_journey_time_based_overwrite" /\ outcome'.result = "ok"

C24_Arg(k) == outcome'.model_name.params[k]

C24_New == IF C24_Arg(4) THEN channels' ELSE outcome'.returned[1]

\* One pass as the claim words it: a touch becomes the channel of the touch
\* before it when it is not the first, is the selected channel and is less
\* than time_window hours after the touch before it.
C24_Pass(old, hours, selected_channel, time_window) ==
  [i \in DOMAIN old |->
     IF i > 1 /\ old[i] = selected_channel /\ hours[i - 1] - hours[i] < time_window
     THEN old[i - 1] ELSE old[i]]

RECURSIVE C24_Passes(_, _, _, _, _)
C24_Passes(old, hours, selected_channel, time_window, order) ==
  IF order = 0 THEN old
  ELSE C24_Passes(C24_Pass(old, hours, selected_channel, time_window), hours,
                  selected_channel, time_window, order - 1)

\* C24 (time-based overwrite): the channels the overwrite produces are, for
\* every journey, the result of `order` passes, each replacing a touch by
\* the channel the touch before it had before the pass exactly when the
\* touch is the selected channel and less than time_window hours after the
\* touch before it; the first touch and the length of the journey stay.
C24_Overwrite ==
  [][C24_Overwrote =>
       /\ DOMAIN C24_New = DOMAIN channels
       /\ \A j \in DOMAIN channels :
            /\ Len(C24_New[j]) = Len(channels[j])
            /\ C24_New[j][1] = channels[j][1]
            /\ C24_New[j] = C24_Passes(channels[j], time_till_conv[1][j], C24_Arg(1),
                                       C24_Arg(2), C24_Arg(3))]_vars

\* [A, Direct, Direct] within the window: order 2 gave [A, A, A].
C24_Witness ==
  /\ outcome.op = "channels_journey_time_based_overwrite"
  /\ outcome.model_name.params = <<"Direct", 24, 2, FALSE>>
  /\ channels = << <<"A", "Direct", "Direct">> >>
  /\ outcome.returned = << << <<"A", "A", "A">> >> >>

\* Row k of the matrix is 1 on the diagonal and 0 everywhere else.
C25_Absorbing(matrix, k) ==
  \A c \in 1..Len(matrix[k]) : matrix[k][c] = IF c = k THEN One ELSE Zero

\* C25 (Markov absorbing states): for every journey collection a call of
\* attribution_markov with a valid conversion_value_type returns a matrix
\* indexed by START, the sorted channels, NULL and CONVERSION, whose NULL
\* and CONVERSION rows are absorbing and none of whose channel rows is.
C25_AbsorbingStates ==
  (/\ outcome.op = "attribution_markov"
   /\ outcome.conversion_value_type \in allowed_conversion_value_types)
    => /\ outcome.result = "ok"
       /\ markov.names = <<"(inicio)">> \o sorted(UNION {Range(channels[j]) : j \in DOMAIN channels})
                           \o <<"(null)", "(conversion)">>
       /\ Len(markov.matrix) = Len(markov.names)
       /\ C25_Absorbing(markov.matrix, Len(markov.names) - 1)
       /\ C25_Absorbing(markov.matrix, Len(markov.names))
       /\ \A k \in 2..(Len(markov.names) - 2) : ~C25_Absorbing(markov.matrix, k)

\* v of the coalition of the channels at positions ps of a combination: its
\* value in the table of the run, 0 when the table does not hold it, and 0
\* for the empty coalition.
C26_V(key, ps) ==
  IF ps = {} THEN Zero
  ELSE coalition_value(coalition_key(key, ps), shapley.conv_table, C18_ValuesCol, <<>>)

\* The classical Shapley value of the channel at position i of a combination.
C26_Classical(key, i) ==
  RSumSet(SUBSET (DOMAIN key \ {i}),
          [S \in SUBSET (DOMAIN key \ {i}) |->
             RMul(Norm(factorial(Cardinality(S)) * factorial(Len(key) - Cardinality(S) - 1),
                       factorial(Len(key))),
                  RSub(C26_V(key, S \cup {i}), C26_V(key, S)))])

\* C26 (Shapley formula): for every combination attribution_shapley
\* processed with a column of the conversion table as values_col, the raw
\* value of each of its channels is the classical Shapley value: the sum
\* over the subsets S of the other channels of |S|! (n - |S| - 1)! / n!
\* times (v(S with the channel) - v(S)).
C26_ShapleyFormula ==
  (Ran("attribution_shapley") /\ C18_ValuesCol # "custom_value") =>
    \A key \in DOMAIN shapley.results :
      \A i \in DOMAIN key : shapley.results[key][i] = C26_Classical(key, i)

\* The same where no label of a combination is a substring of another.
C26_ShapleyFormulaPlain ==
  (Ran("attribution_shapley") /\ C18_ValuesCol # "custom_value") =>
    \A key \in DOMAIN shapley.results :
      (\A a, b \in Range(key) : substring(a, b) => a = b)
        => \A i \in DOMAIN key : shapley.results[key][i] = C26_Classical(key, i)

\* C27 (removal-effect guard): when the START-to-CONVERSION absorption
\* probability of the matrix attribution_markov returned is 0, the removal
\* effect of every channel is 0.
C27_RemovalEffectGuard ==
  (Ran("attribution_markov") /\ calc_total_conversion(markov.matrix) = Zero) =>
    \A k \in DOMAIN markov.removal_effect : markov.removal_effect[k] = Zero

\* The order argument of the Shapley run that returned last.
C28_Order == outcome.model_name.params[3]

\* C28 (coalition membership): in the table coalitions() builds for a
\* combination attribution_shapley processed, the boolean column of a
\* channel is true on the row of a coalition exactly when the channel is
\* one of the coalition's elements.
C28_Membership ==
  Ran("attribution_shapley") =>
    \A key \in DOMAIN shapley.results :
      \A ps \in coalitions(Len(key)) :
        \A i \in DOMAIN key :
          coalition_flag(key[i], coalition_base(key, C28_Order), ps)
            <=> key[i] \in Range(coalition_key(coalition_base(key, C28_Order), ps))

\* The step is a run of a heuristic model with group_by_channels_models False.
C29_UngroupedRun ==
  /\ runs' = runs + 1
  /\ ~outcome'.gb
  /\ outcome'.op \in {"attribution_first_click", "attribution_last_click",
                      "attribution_last_click_non", "attribution_linear",
                      "attribution_position_based", "attribution_time_decay"}

\* C29 (heuristic models without aggregation): a heuristic model run with
\* group_by_channels_models False ends normally, returns one credit vector
\* per journey, and leaves the aggregate table as it was.
C29_Ungrouped ==
  [][C29_UngroupedRun =>
       /\ outcome'.result = "ok"
       /\ ~stored'[AttributeOf(outcome'.op)].is_none
       /\ DOMAIN stored'[AttributeOf(outcome'.op)].channels_value = DOMAIN channels
       /\ group_by_channels_models' = group_by_channels_models]_vars

\* The frame journey_id_based_on_conversion returned.
C30_Frame == outcome.returned[1]

\* Rows i and k are sessions of one journey: same user, same rank.
C30_SameJourney(i, k) ==
  /\ C30_Frame.user_id[i] = C30_Frame.user_id[k]
  /\ C30_Frame.journey_rnk[i] = C30_Frame.journey_rnk[k]

\* C30 (journey segmentation by conversion): in the frame the function
\* returns for sessions sorted by user and timestamp, a journey holds at
\* most one converting session, a converting session is the last session
\* of its journey, the session after a conversion starts the next journey,
\* and the ranks of a user are the integers from 0 up, in order; two
\* sessions have the same journey id exactly when they have the same user
\* and rank.
C30_Segmentation ==
  outcome.op = "journey_id_based_on_conversion" =>
    /\ C30_Frame.has_transaction = original_df.has_transaction
    /\ \A i, k \in DOMAIN original_df.user_id :
         (C30_Frame.user_id[i] = C30_Frame.user_id[k])
           <=> (original_df.user_id[i] = original_df.user_id[k])
    /\ \A i, k \in DOMAIN C30_Frame.user_id :
         /\ (i < k /\ C30_SameJourney(i, k)) => ~C30_Frame.has_transaction[i]
         /\ (k = i + 1 /\ C30_Frame.user_id[i] = C30_Frame.user_id[k]) =>
              C30_Frame.journey_rnk[k]
                = C30_Frame.journey_rnk[i] + BoolInt(C30_Frame.has_transaction[i])
    /\ \A i \in DOMAIN C30_Frame.user_id :
         /\ (i = 1 \/ C30_Frame.user_id[i - 1] # C30_Frame.user_id[i]) =>
              C30_Frame.journey_rnk[i] = 0
    /\ \A i, k \in DOMAIN C30_Frame.user_id :
         (C30_Frame.journey_id[i] = C30_Frame.journey_id[k]) <=> C30_SameJourney(i, k)

\* A user converts at the first and the third of four sessions: journeys
\* 0, 1, 1, 2; another user has one session.
C30_Witness ==
  /\ outcome.op = "journey_id_based_on_conversion"
  /\ original_df.user_id = <<1, 1, 1, 2>>
  /\ original_df.has_transaction = <<TRUE, FALSE, TRUE, FALSE>>
  /\ C30_Frame.journey_rnk = <<0, 1, 1, 0>>

====
